---- MODULE Spec2Model ----
(***************************************************************************)
(* A model of tinymetrics: the bounded lock-free Registry / RegistryMap    *)
(* (src/registry.rs), the TimestampCell (src/timestamp.rs) and the metrics, *)
(* label sets and metric families of src/metric.rs.                        *)
(*                                                                         *)
(* Every thread runs one call at a time.  A call is split into one step    *)
(* per access to shared memory, in program order; the thread-local work    *)
(* between two accesses belongs to the step of the access before it.       *)
(* Every call ever started is kept in `calls`, with the logical time at    *)
(* which it started and returned, so that properties about calls that      *)
(* overlap (or do not) are predicates of the state.                        *)
(***************************************************************************)
EXTENDS Integers, Sequences, FiniteSets, TLC

\* ------------------------------------------------------------------ bounds
\* the const generic CAPACITY of the registry under test
CAPACITY == 2
\* registry calls started in one behaviour, over all threads
MaxCalls == 3
\* set_value calls started in one behaviour, over all threads
MaxUpdates == 2
\* distinct keys (label sets) a caller may pass
NumKeys == 2
\* the time source returns readings in 0..MaxTime
MaxTime == 2
\* set_value is called with values up to MaxValue (and 0, and NaN)
MaxValue == 2
\* fmt_metric calls started in one behaviour, over all threads
MaxExports == 1
\* calls on a metric family (register, set_value, fetch_add) started in one
\* behaviour, over all threads
MaxFamilyCalls == 3
\* a label set has up to MaxLabels labels
MaxLabels == 2
\* metric lines written in one behaviour, over all threads
MaxLines == 2
\* calls of a family's min_value, max_value, total and mean started in one
\* behaviour, over all threads
MaxReads == 2

\* --------------------------------------------------------------- constants
\* usize::MAX + 1 of the narrowest target Rust supports (16-bit pointers):
\* AtomicUsize::fetch_add wraps around at this value
UsizeModulus == 65536
\* the content of a MaybeUninit word that nothing has written yet
Uninit == 0
\* f64::NAN, the one float kept apart from the numbers (is_nan() holds of it)
NaN == -1

\* the threads that call into the registry or the metric concurrently
Threads == {1, 2}
Keys == 1..NumKeys
SlotIndices == 0..(CAPACITY - 1)

VARIABLES
    next,     \* Registry::next, the AtomicUsize index counter
    values,   \* Registry::values, the array of Slot<(K, V)>
    calls,    \* every call started so far, in the order they started
    cur,      \* cur[t]: the call thread t is running or ran last (0: none yet)
    clock,    \* logical time: one tick per call start and per call return
    metric,   \* one metric standing alone: its atomics and its TimestampCell
    def       \* MetricFamily::def, the MetricBuilder the metrics are built from

vars == <<next, values, calls, cur, clock, metric, def>>

\* Slot { value: UnsafeCell::new(MaybeUninit::uninit()), initialized: false }
NEW_SLOT == [initialized |-> FALSE, key |-> Uninit, val |-> Uninit]

\* ------------------------------------------------------------ call records
NoRet == [tag |-> "pending", slot |-> 0, key |-> Uninit, val |-> Uninit]
\* Ok(&T) and Some(&V): the reference, as the index of the slot it points into
\* and the value found behind it when the call returned
Ok(i, slot) == [tag |-> "Ok", slot |-> i, key |-> slot.key, val |-> slot.val]
Err(k, v) == [tag |-> "Err", slot |-> 0, key |-> k, val |-> v]
Some(i, slot) == [tag |-> "Some", slot |-> i, key |-> slot.key, val |-> slot.val]
None == [tag |-> "None", slot |-> 0, key |-> Uninit, val |-> Uninit]
\* a usize result, and the panic `attempt to subtract with overflow`
Usize(n) == [tag |-> "usize", val |-> n]
Overflow == [tag |-> "panic", val |-> 0]

Running(c) == calls[c].pc \notin {"done", "panicked"}
ThreadIdle(t) == IF cur[t] = 0 THEN TRUE ELSE calls[cur[t]].pc = "done"
At(t, p) == cur[t] # 0 /\ calls[cur[t]].pc = p

NewCall(t, op, k, v, p) ==
    [thread |-> t, op |-> op, key |-> k, val |-> v, pc |-> p,
     reserved |-> FALSE, idx |-> 0, ticket |-> 0, cursor |-> 0, initEval |-> FALSE,
     written |-> {}, now |-> 0, curr |-> 0, stored |-> 0, ahead |-> "pending",
     target |-> <<>>, ret |-> NoRet, start |-> clock + 1, end |-> 0,
     visited |-> <<>>, yielded |-> <<>>, before |-> {}, hints |-> {}]

StartCall(t, op, k, v, p, limit) ==
    /\ ThreadIdle(t)
    /\ Len(calls) < limit
    /\ calls' = Append(calls, NewCall(t, op, k, v, p))
    /\ cur' = [cur EXCEPT ![t] = Len(calls) + 1]
    /\ clock' = clock + 1

\* the calls with call c having returned r to its caller
Return(cs, c, r) == [cs EXCEPT ![c].pc = "done", ![c].ret = r, ![c].end = clock + 1]
\* the calls with call c unwound by a panic
Panic(cs, c) == [cs EXCEPT ![c].pc = "panicked", ![c].end = clock + 1]
\* the calls with call c left at its step, to try it again
GotoRetry(cs, c, p) == cs
\* the calls with call c moved on to its step p
Goto(cs, c, p) == [cs EXCEPT ![c].pc = p]

\* A call on a metric works through a reference: `target` is <<>> for the
\* metric that stands alone (the variable `metric`) and <<i>> for the metric
\* stored as the value of slot i of a family's registry.
StartCallOn(t, op, target, v, p, limit) ==
    /\ ThreadIdle(t)
    /\ Len(calls) < limit
    /\ calls' = Append(calls, [NewCall(t, op, Uninit, v, p) EXCEPT !.target = target])
    /\ cur' = [cur EXCEPT ![t] = Len(calls) + 1]
    /\ clock' = clock + 1
\* the metric call c works on
Metric(c) ==
    IF calls[c].target = <<>> THEN metric ELSE values[calls[c].target[1]].val
\* a store that reaches every metric of the family
StoreAll(c, m) ==
    /\ metric' = metric
    /\ values' = [i \in SlotIndices |->
                    IF values[i].initialized THEN [values[i] EXCEPT !.val = m]
                    ELSE values[i]]
\* the metric call c works on becomes m; nothing else in memory changes
Store(c, m) ==
    IF calls[c].target = <<>>
    THEN metric' = m /\ values' = values
    ELSE metric' = metric /\ values' = [values EXCEPT ![calls[c].target[1]].val = m]

\* Gauge::from_builder / IntGauge::from_builder / Counter::from_builder: the
\* value starts at NaN (Gauge) or 0 (IntGauge, Counter), recorded at false (a
\* Counter has no such flag and never touches it), and the TimestampCell,
\* present iff the builder has a timestamp_fn, at 0.  `history` holds every
\* value the cell `now` has held, which is what a Relaxed load may still
\* return; `released` is the value of `now` that the Release store of `value`
\* has published: a thread whose Acquire load reads `value` cannot read an
\* older `now` afterwards.
Unset(kind) == IF kind = "Gauge" THEN NaN ELSE 0
NewMetric(kind, timestamp_fn) ==
    [kind |-> kind, timestamped |-> timestamp_fn, value |-> Unset(kind),
     recorded |-> FALSE, now |-> 0, history |-> {0}, released |-> 0]

\* MetricBuilder { name, help, unit, timestamp_fn } with the metric type M it
\* is built for: timestamp_fn is Some(UnixTimestamp::now) from new() or
\* with_timestamp(), None after without_timestamps()
\* new(name) leaves help and unit empty
MetricBuilder(kind, timestamp_fn) ==
    [kind |-> kind, timestamp_fn |-> timestamp_fn,
     name |-> "name", help |-> "", unit |-> ""]
\* with_help: Self { help, ..self }     with_unit: Self { unit, ..self }
with_help(builder, help) == [builder EXCEPT !.help = help]
with_unit(builder, unit) == [builder EXCEPT !.unit = unit]
\* without_timestamps: Self { timestamp_fn: None, ..self }
without_timestamps(builder) == [builder EXCEPT !.timestamp_fn = FALSE]
\* a build that gives every metric a TimestampCell
BuildTimestamped(builder) == NewMetric(builder.kind, TRUE)
\* M::build(&self.def): Self::from_builder(builder)
Build(builder) == NewMetric(builder.kind, builder.timestamp_fn)

\* ---------------------------------------------------------------- Registry
\* Registry::new
InitRegistry ==
    /\ next = 0
    /\ values = [i \in SlotIndices |-> NEW_SLOT]
    /\ calls = <<>>
    /\ cur = [t \in Threads |-> 0]
    /\ clock = 0
    /\ metric = NewMetric("IntGauge", FALSE)
    /\ def = MetricBuilder(metric.kind, metric.timestamped)

\* how many calls have reserved an index so far (history, not program state)
Reservations == Cardinality({d \in DOMAIN calls : calls[d].reserved})

\* a lost increment: the counter is read but not advanced
FetchAddLost(old) == old

\* the value AtomicUsize::fetch_add(1) leaves in the counter
FetchAdd(old) == (old + 1) % UsizeModulus

\* an off-by-one bounds check that gives up the last slot
InBoundsShort(idx) == idx + 1 < CAPACITY

\* self.values.get(idx): Some(slot) exactly for an index inside the array
InBounds(idx) == idx < CAPACITY

\* what each entry point makes of try_register's Result
\*   try_register: the Result itself
\*   register: Ok(slot) => slot, Err(_) => panic!
\*   get_or_register_with: .ok().map(|(_, val)| val)
Finish(cs, c, ok) ==
    LET call == cs[c] IN
    CASE call.op = "try_register" ->
            Return(cs, c, IF ok THEN Ok(call.idx, values[call.idx])
                                ELSE Err(call.key, call.val))
      [] call.op = "register" ->
            IF ok THEN Return(cs, c, Ok(call.idx, values[call.idx])) ELSE Panic(cs, c)
      [] OTHER ->
            Return(cs, c, IF ok THEN Some(call.idx, values[call.idx]) ELSE None)

\* pub fn try_register(&self, value: T) -> Result<&T, T>
CallTryRegister(t) ==
    /\ \E k \in Keys : StartCall(t, "try_register", k, Len(calls) + 1, "fetch_add", MaxCalls)
    /\ UNCHANGED <<next, values, metric, def>>

\* pub fn register(&self, value: T) -> &T
CallRegister(t) ==
    /\ \E k \in Keys : StartCall(t, "register", k, Len(calls) + 1, "fetch_add", MaxCalls)
    /\ UNCHANGED <<next, values, metric, def>>

\* let idx = self.next.fetch_add(1, AcqRel);
\* let Some(slot) = self.values.get(idx) else { return Err(value) };
TR_FetchAdd(t) ==
    /\ At(t, "fetch_add")
    /\ LET c == cur[t]
           cs == [calls EXCEPT ![c].reserved = TRUE, ![c].idx = next,
                               ![c].ticket = Reservations]
       IN  /\ next' = FetchAdd(next)
           /\ IF InBounds(next)
              THEN calls' = Goto(cs, c, "assert") /\ clock' = clock
              ELSE calls' = Finish(cs, c, FALSE) /\ clock' = clock + 1
    /\ UNCHANGED <<values, cur, metric, def>>

\* assert!(!slot.initialized.load(Acquire), "slot already initialized!");
TR_Assert(t) ==
    /\ At(t, "assert")
    /\ LET c == cur[t] IN
       IF values[calls[c].idx].initialized
       THEN calls' = Panic(calls, c) /\ clock' = clock + 1
       ELSE calls' = Goto(calls, c, "write") /\ clock' = clock
    /\ UNCHANGED <<next, values, cur, metric, def>>

\* the flag published together with the first word copied, before the copy
\* of the value is complete
WriteWordPublished(slot, call, f) ==
    IF f = "key" THEN [slot EXCEPT !.key = call.key, !.initialized = TRUE]
                 ELSE [slot EXCEPT !.val = call.val, !.initialized = TRUE]

\* the slot's storage after word f of the call's value is copied into it
WriteWord(slot, call, f) ==
    IF f = "key" THEN [slot EXCEPT !.key = call.key]
                 ELSE [slot EXCEPT !.val = call.val]

\* ptr::write(uninit.as_mut_ptr(), value): a plain (non-atomic) copy of the
\* value, one word per step, in an order the compiler picks
TR_Write(t) ==
    /\ At(t, "write")
    /\ LET c == cur[t]
           call == calls[c]
       IN  \E f \in {"key", "val"} \ call.written :
             /\ values' = [values EXCEPT ![call.idx] = WriteWord(@, call, f)]
             /\ calls' = [calls EXCEPT
                    ![c].written = @ \cup {f},
                    ![c].pc = IF call.written \cup {f} = {"key", "val"}
                              THEN "swap" ELSE "write"]
    /\ UNCHANGED <<next, cur, clock, metric, def>>

\* let _was_init = slot.initialized.swap(true, AcqRel);
\* debug_assert!(!_was_init, ...);   (compiled out of release builds)
\* Ok(init)
TR_Swap(t) ==
    /\ At(t, "swap")
    /\ LET c == cur[t]
           was_init == values[calls[c].idx].initialized
       IN  /\ values' = [values EXCEPT ![calls[c].idx].initialized = TRUE]
           /\ \E debug_assertions \in (IF was_init THEN BOOLEAN ELSE {FALSE}) :
                calls' = IF debug_assertions THEN Panic(calls, c)
                                             ELSE Finish(calls, c, TRUE)
    /\ clock' = clock + 1
    /\ UNCHANGED <<next, cur, metric, def>>

\* the steps of try_register, whichever entry point it was called from
TryRegisterStep(t) ==
    \/ TR_FetchAdd(t)
    \/ TR_Assert(t)
    \/ TR_Write(t)
    \/ TR_Swap(t)

NextRegistry ==
    \E t \in Threads :
        \/ CallTryRegister(t)
        \/ CallRegister(t)
        \/ TryRegisterStep(t)

SpecRegistry == InitRegistry /\ [][NextRegistry]_vars

\* A registry on which usize::MAX claims have been made: the first CAPACITY
\* of them reserved the slots and every later one was rejected, so `next` is
\* usize::MAX, one claim short of wrapping around.  Either all those calls
\* have returned, or the claim of slot 0 is still in flight: its thread
\* reserved index 0 and was held up before the assertion while the other
\* thread made all the other claims.  `calls` holds the call in flight and
\* the calls to come; a value stored by an earlier call is its index - CAPACITY.
InitWrap ==
    /\ next = UsizeModulus - 1
    /\ clock = 1
    /\ metric = NewMetric("IntGauge", FALSE)
    /\ def = MetricBuilder(metric.kind, metric.timestamped)
    /\ \E in_flight \in BOOLEAN, k \in Keys :
         /\ values = [i \in SlotIndices |->
                         IF in_flight /\ i = 0 THEN NEW_SLOT
                         ELSE [initialized |-> TRUE, key |-> k, val |-> i - CAPACITY]]
         /\ calls = IF in_flight
                    THEN <<[NewCall(1, "try_register", k, 1, "assert") EXCEPT
                               !.reserved = TRUE, !.start = 1]>>
                    ELSE <<>>
         /\ cur = [t \in Threads |-> IF in_flight /\ t = 1 THEN 1 ELSE 0]

SpecWrap == InitWrap /\ [][NextRegistry]_vars

\* ------------------------------------------------------------- RegistryMap
\* RegistryMap::new: Self(Registry::new())
InitMap == InitRegistry

\* the flag test inverted: initialized slots are skipped
SlotGetInverted(slot) == ~slot.initialized

\* Slot::get: Some(&value) if the initialized flag is set, else None
SlotGet(slot) == slot.initialized

\* a comparison that never matches
KeyEqNever(a, b) == FALSE

\* `&key == k`: the PartialEq of the key type
KeyEq(a, b) == a = b

\* pub fn get_or_register_with(&self, key: K, init: impl FnOnce() -> V)
\* (get_or_register and get_or_register_default only choose init)
CallGetOrRegisterWith(t) ==
    /\ \E k \in Keys : StartCall(t, "get_or_register_with", k, Uninit, "scan", MaxCalls)
    /\ UNCHANGED <<next, values, metric, def>>

\* init(): the value the caller's closure makes, a value of the call's own
\* for a caller of the map, `|| M::build(&self.def)` for MetricFamily::register
InitClosure(c) ==
    IF calls[c].op = "MetricFamily::register" THEN Build(def) ELSE c

\* one turn of `for (k, v) in self.iter() { if &key == k { return Some(v) } }`:
\* Entries::next takes the next slot of the array and skips it unless
\* Slot::get finds it initialized.  After the last slot the loop ends, init()
\* is evaluated and try_register((key, init())) begins.
ScanStep(t) ==
    /\ At(t, "scan")
    /\ LET c == cur[t]
           call == calls[c]
           slot == values[call.cursor]
       IN  IF SlotGet(slot) /\ KeyEq(call.key, slot.key)
           THEN /\ calls' = Return(calls, c, Some(call.cursor, slot))
                /\ clock' = clock + 1
           ELSE /\ calls' = IF call.cursor + 1 < CAPACITY
                            THEN [calls EXCEPT ![c].cursor = @ + 1]
                            ELSE [calls EXCEPT ![c].cursor = @ + 1,
                                               ![c].initEval = TRUE,
                                               ![c].val = InitClosure(c),
                                               ![c].pc = "fetch_add"]
                /\ clock' = clock
    /\ UNCHANGED <<next, values, cur, metric, def>>

NextMap ==
    \E t \in Threads :
        \/ CallGetOrRegisterWith(t)
        \/ ScanStep(t)
        \/ TryRegisterStep(t)

SpecMap == InitMap /\ [][NextMap]_vars

\* --------------------------------------------------------------- iterators
\* Iter (Registry::iter) and Entries, Keys, Values (RegistryMap::iter, keys,
\* values) all wrap `self.values.iter()`, the slice iterator over the slot
\* array, and differ in what they hand out for a slot.  A RegistryMap is a
\* Registry of (key, value) pairs, so its slots are filled by try_register
\* like any other.  An iteration is recorded as one call: `cursor` is the
\* front of the slice iterator, `visited` the slots taken from it, `yielded`
\* the items handed out, `before` the slots whose flag was set when the
\* iterator was made, `hints` the answers size_hint() gave on the way.
Iterators == {"Iter", "Entries", "Keys", "Values"}

\* the item next() hands out for an initialized slot
Item(op, slot) ==
    CASE op = "Keys" -> <<slot.key>>
      [] op = "Values" -> <<slot.val>>
      [] OTHER -> <<slot.key, slot.val>>

\* Registry::iter / RegistryMap::iter / keys / values
CallIter(t) ==
    /\ ThreadIdle(t)
    /\ Len(calls) < MaxCalls
    /\ \E op \in Iterators :
         calls' = Append(calls,
                    [NewCall(t, op, Uninit, Uninit, "next") EXCEPT
                        !.before = {i \in SlotIndices : values[i].initialized}])
    /\ cur' = [cur EXCEPT ![t] = Len(calls) + 1]
    /\ clock' = clock + 1
    /\ UNCHANGED <<next, values, metric, def>>

\* one turn of the loop of next(): `let slot = self.slots.next()?` takes the
\* slot at the front, or ends the iteration with None past the last slot;
\* `if let Some(value) = slot.get()` hands the slot's item out if its flag is
\* set and goes round again if not
IterNext(t) ==
    /\ At(t, "next")
    /\ LET c == cur[t]
           call == calls[c]
       IN  IF call.cursor < CAPACITY
           THEN /\ calls' = [calls EXCEPT
                      ![c].cursor = @ + 1,
                      ![c].visited = Append(@, call.cursor),
                      ![c].yielded =
                          IF SlotGet(values[call.cursor])
                          THEN Append(@, [slot |-> call.cursor,
                                          item |-> Item(call.op, values[call.cursor])])
                          ELSE @]
                /\ clock' = clock
           ELSE /\ calls' = Return(calls, c, None)
                /\ clock' = clock + 1
    /\ UNCHANGED <<next, values, cur, metric, def>>

\* the caller holds the iterator: it is new, or the last slot next() took
\* was handed out (next() does not come back from a slot it skips)
BetweenNexts(call) ==
    IF call.visited = <<>> THEN TRUE
    ELSE IF call.yielded = <<>> THEN FALSE
    ELSE call.yielded[Len(call.yielded)].slot = call.visited[Len(call.visited)]

\* size_hint(): self.slots.size_hint(), which for a slice iterator is
\* (n, Some(n)) with n the number of slots not yet taken.  `at` notes how
\* many items had been handed out when the hint was given.
SizeHint(t) ==
    /\ At(t, "next")
    /\ BetweenNexts(calls[cur[t]])
    /\ LET c == cur[t]
           n == CAPACITY - calls[c].cursor
       IN  calls' = [calls EXCEPT ![c].hints = @ \cup
                        {[lower |-> n, upper |-> n, at |-> Len(calls[c].yielded)]}]
    /\ UNCHANGED <<next, values, cur, clock, metric, def>>

NextIter ==
    \E t \in Threads :
        \/ CallTryRegister(t)
        \/ TryRegisterStep(t)
        \/ CallIter(t)
        \/ IterNext(t)
        \/ SizeHint(t)

SpecIter == InitRegistry /\ [][NextIter]_vars

\* ------------------------------------------------------ Gauge / IntGauge
InitGauge ==
    /\ next = 0
    /\ values = [i \in SlotIndices |-> NEW_SLOT]
    /\ calls = <<>>
    /\ cur = [t \in Threads |-> 0]
    /\ clock = 0
    /\ metric \in {NewMetric(kind, timestamp_fn) :
                     kind \in {"Gauge", "IntGauge"}, timestamp_fn \in BOOLEAN}
    /\ def = MetricBuilder(metric.kind, metric.timestamped)

\* the fmt_metric calls started so far: they do not count as updates
Exports == {d \in DOMAIN calls : calls[d].op = "fmt_metric"}

\* the values a caller may pass to set_value: f64 for a Gauge, usize for an
\* IntGauge
SetValues(kind) == IF kind = "Gauge" THEN {NaN} \cup (1..MaxValue) ELSE 0..MaxValue

\* the largest value of `now` that thread t has read or written itself: by
\* coherence a later load of the thread cannot return an older one
LastSeen(t) ==
    LET mine == {d \in DOMAIN calls : /\ calls[d].thread = t
                                      /\ calls[d].target = calls[cur[t]].target}
        own == {calls[c].curr : c \in mine}
               \cup {calls[c].now : c \in {d \in mine : calls[d].ahead = "true"}}
    IN  CHOOSE m \in own \cup {0} : \A x \in own : x <= m

\* self.now.load(Ordering::Relaxed): the current value, or an older one the
\* thread has not yet seen replaced
RelaxedLoad(t) == {v \in Metric(cur[t]).history : v >= LastSeen(t)}

\* no comparison at all: every reading replaces the stored time
AheadAlways(now, curr) == TRUE

\* a comparison that lets a reading equal to the stored time through
AheadOrEqual(now, curr) == now >= curr

\* the comparison of the loop: the reading is ahead of the stored time
Ahead(now, curr) == now > curr

\* the result of update_if_ahead ignored: the update goes on regardless
AfterUpdateIgnored(cs, c, ahead) ==
    [cs EXCEPT ![c].ahead = IF ahead THEN "true" ELSE "false",
               ![c].pc = "store_value"]

\* a set_value that goes from update_if_ahead straight to the recorded flag
AfterUpdateSkipsStore(cs, c, ahead) ==
    IF ahead THEN [cs EXCEPT ![c].ahead = "true", ![c].pc = "store_recorded"]
             ELSE Return([cs EXCEPT ![c].ahead = "false"], c, None)

\* `if !timestamp.update_if_ahead() { return; }` in set_value: where the call
\* goes once update_if_ahead has returned `ahead`
AfterUpdate(cs, c, ahead) ==
    IF ahead THEN [cs EXCEPT ![c].ahead = "true", ![c].pc = "store_value"]
             ELSE Return([cs EXCEPT ![c].ahead = "false"], c, None)

\* pub fn set_value(&self, value): with a TimestampCell the call begins in
\* update_if_ahead, without one at the store of the value
CallSetValue(t) ==
    /\ \E v \in SetValues(metric.kind) :
         StartCall(t, "set_value", Uninit, v,
                   IF metric.timestamped THEN "load" ELSE "store_value",
                   MaxUpdates + Cardinality(Exports))
    /\ UNCHANGED <<next, values, metric, def>>

\* let now = (self.timestamp_fn)().as_secs();
\* let mut curr = self.now.load(Ordering::Relaxed);
\* loop { if now <= curr { return false; } ...
UpdateIfAheadLoad(t) ==
    /\ At(t, "load")
    /\ \E now \in 0..MaxTime, curr \in RelaxedLoad(t) :
         LET c == cur[t]
             cs == [calls EXCEPT ![c].now = now, ![c].curr = curr,
                                 ![c].stored = Metric(c).now]
         IN  IF Ahead(now, curr)
             THEN calls' = Goto(cs, c, "cas") /\ clock' = clock
             ELSE calls' = AfterUpdate(cs, c, FALSE) /\ clock' = clock + 1
    /\ UNCHANGED <<next, values, cur, metric, def>>

\* a retry that keeps the value it loaded before the loop
CasErrKeepsCurr(cs, c, actual) == cs

\* Err(actual) => curr = actual
CasErr(cs, c, actual) == [cs EXCEPT ![c].curr = actual]

\* match self.now.compare_exchange_weak(curr, now, AcqRel, Acquire) {
\*     Ok(_) => return true,
\*     Err(actual) => curr = actual,    and around the loop: if now <= curr ...
\* }
\* The weak exchange may fail although the cell holds curr; the call is then
\* back where it was, with the same curr.
UpdateIfAheadCas(t) ==
    /\ At(t, "cas")
    /\ LET c == cur[t]
           call == calls[c]
           m == Metric(c)
       IN  IF m.now = call.curr
           THEN \/ /\ Store(c, [m EXCEPT !.now = call.now,
                                          !.history = @ \cup {call.now}])
                   /\ calls' = AfterUpdate([calls EXCEPT ![c].written = {"now"}],
                                           c, TRUE)
                   /\ clock' = clock
                \/ UNCHANGED <<metric, values, calls, clock>>
           ELSE /\ UNCHANGED <<metric, values>>
                /\ LET cs == CasErr(calls, c, m.now) IN
                   IF Ahead(call.now, m.now)
                   THEN calls' = cs /\ clock' = clock
                   ELSE calls' = AfterUpdate(cs, c, FALSE) /\ clock' = clock + 1
    /\ UNCHANGED <<next, cur, def>>

\* self.value.store(value, Ordering::Release);
StoreValue(t) ==
    /\ At(t, "store_value")
    /\ LET c == cur[t] IN
         /\ Store(c, [Metric(c) EXCEPT !.value = calls[c].val,
                                       !.released = LastSeen(t)])
         /\ calls' = [calls EXCEPT ![c].written = @ \cup {"value"},
                                   ![c].pc = "store_recorded"]
    /\ UNCHANGED <<next, cur, clock, def>>

\* self.recorded.store(true, Ordering::Release);
StoreRecorded(t) ==
    /\ At(t, "store_recorded")
    /\ LET c == cur[t] IN
         /\ Store(c, [Metric(c) EXCEPT !.recorded = TRUE])
         /\ calls' = Return([calls EXCEPT ![c].written = @ \cup {"recorded"}],
                            c, None)
    /\ clock' = clock + 1
    /\ UNCHANGED <<next, cur, def>>

\* a has_been_recorded that every metric type answers with `true`
HasBeenRecordedAlways(m) == TRUE

\* a has_been_recorded that treats a Counter as an IntGauge
HasBeenRecordedByValue(m) == m.value # Unset(m.kind) \/ m.recorded

\* Gauge:    !self.value().is_nan() || self.recorded.load(Acquire)
\* IntGauge: self.value() != 0 || self.recorded.load(Acquire)
\* Counter:  the trait's default body, `true`
\* (what the call returns when nothing happens between its two loads)
HasBeenRecorded(m) ==
    IF m.kind = "Counter" THEN TRUE ELSE m.value # Unset(m.kind) \/ m.recorded

NextGauge ==
    \E t \in Threads :
        \/ CallSetValue(t)
        \/ UpdateIfAheadLoad(t)
        \/ UpdateIfAheadCas(t)
        \/ StoreValue(t)
        \/ StoreRecorded(t)

SpecGauge == InitGauge /\ [][NextGauge]_vars

\* Every thread that is inside set_value keeps running, and a weak exchange
\* that could succeed does not fail forever: each step of the call that
\* changes something is taken if it stays possible.
SpecGaugeFair ==
    /\ SpecGauge
    /\ \A t \in Threads :
         /\ WF_vars(UpdateIfAheadLoad(t))
         /\ WF_vars(UpdateIfAheadCas(t))
         /\ WF_vars(StoreValue(t))
         /\ WF_vars(StoreRecorded(t))

\* ------------------------------------------------------------------ Counter
InitCounter ==
    /\ next = 0
    /\ values = [i \in SlotIndices |-> NEW_SLOT]
    /\ calls = <<>>
    /\ cur = [t \in Threads |-> 0]
    /\ clock = 0
    /\ metric \in {NewMetric("Counter", timestamp_fn) : timestamp_fn \in BOOLEAN}
    /\ def = MetricBuilder(metric.kind, metric.timestamped)

\* the increments a caller may pass to fetch_add: small ones and usize::MAX,
\* with which the sum leaves the range of usize
Increments == (0..MaxValue) \cup {UsizeModulus - 1}

\* a store of the reading in place of the maximum
MaxOverwrite(a, b) == b

\* u64::max, what fetch_max leaves in the cell
Max(a, b) == IF a >= b THEN a ELSE b

\* pub fn fetch_add(&self, value: usize) -> usize: with a TimestampCell the
\* call begins in update_max, without one at the fetch_add of the value
CallFetchAdd(t) ==
    /\ \E n \in Increments :
         StartCall(t, "fetch_add", Uninit, n,
                   IF metric.timestamped THEN "update_max" ELSE "add_value",
                   MaxUpdates)
    /\ UNCHANGED <<next, values, metric, def>>

\* let now = (self.timestamp_fn)().as_secs();
\* self.now.fetch_max(now, Ordering::AcqRel);
UpdateMax(t) ==
    /\ At(t, "update_max")
    /\ \E now \in 0..MaxTime :
         LET c == cur[t]
             m == Metric(c)
         IN  /\ Store(c, [m EXCEPT !.now = Max(@, now),
                                   !.history = @ \cup {Max(m.now, now)}])
             /\ calls' = [calls EXCEPT ![c].now = now, ![c].stored = m.now,
                                       ![c].curr = Max(m.now, now),
                                       ![c].pc = "add_value"]
    /\ UNCHANGED <<next, cur, clock, def>>

\* an increment that replaces the value instead of adding to it
CounterAddStore(old, n) == n

\* the value AtomicUsize::fetch_add(n) leaves in the counter: the sum, wrapped
\* around on overflow
CounterAdd(old, n) == (old + n) % UsizeModulus

\* the fetch_add calls whose increment has been applied
Applied ==
    {d \in DOMAIN calls : /\ calls[d].op = "fetch_add"
                          /\ calls[d].pc \notin {"update_max", "add_value"}}

\* self.value.fetch_add(value, Ordering::Release): one atomic read-modify-
\* write, which returns the value it replaced
AddValue(t) ==
    /\ At(t, "add_value")
    /\ LET c == cur[t]
           m == Metric(c)
       IN  /\ Store(c, [m EXCEPT !.value = CounterAdd(@, calls[c].val),
                                 !.released = Max(@, LastSeen(t))])
           /\ calls' = Return([calls EXCEPT ![c].written = @ \cup {"value"},
                                            ![c].ticket = Cardinality(Applied)],
                              c, Usize(m.value))
    /\ clock' = clock + 1
    /\ UNCHANGED <<next, cur, def>>

NextCounter ==
    \E t \in Threads :
        \/ CallFetchAdd(t)
        \/ UpdateMax(t)
        \/ AddValue(t)

SpecCounter == InitCounter /\ [][NextCounter]_vars

\* ------------------------------------------- all operations side by side
\* A registry (used as a Registry and, through get_or_register_with, as a
\* RegistryMap), iterations over it and a Counter, worked on by the two
\* threads at once.
\* the next step of the call thread t is in
OwnStep(t) ==
    \/ ScanStep(t)
    \/ TryRegisterStep(t)
    \/ IterNext(t)
    \/ UpdateMax(t)
    \/ AddValue(t)

NextOperations ==
    \E t \in Threads :
        \/ CallTryRegister(t)
        \/ CallGetOrRegisterWith(t)
        \/ CallIter(t)
        \/ CallFetchAdd(t)
        \/ OwnStep(t)

SpecOperations == InitCounter /\ [][NextOperations]_vars

\* Thread 1 keeps running whenever it is inside a call; thread 2 is promised
\* nothing and may stop for good at any point of any call.
SpecOneThreadRuns == SpecOperations /\ WF_vars(OwnStep(1))

\* ------------------------------------------ Gauge / IntGauge: fmt_metric
\* what fmt_metric writes for one metric: the value and, if the metric has a
\* TimestampCell, a space and the timestamp (<<>>: no TimestampCell)
Line(v, timestamp) == [tag |-> "line", value |-> v, timestamp |-> timestamp]

\* fn fmt_metric(&self, writer): a reader formatting the metric while other
\* threads update it
CallFmtMetric(t) ==
    /\ Cardinality(Exports) < MaxExports
    /\ StartCall(t, "fmt_metric", Uninit, Uninit, "load_value",
                 MaxUpdates + MaxExports)
    /\ UNCHANGED <<next, values, metric, def>>

\* write!(writer, "{}", self.value())?;   value(): self.value.load(Acquire)
\* The load synchronizes with the Release store it reads from: the thread
\* has now seen the timestamp that store published.
FmtLoadValue(t) ==
    /\ At(t, "load_value")
    /\ LET c == cur[t]
           m == Metric(c)
           cs == [calls EXCEPT ![c].val = m.value, ![c].curr = m.released]
       IN  IF m.timestamped
           THEN calls' = Goto(cs, c, "load_timestamp") /\ clock' = clock
           ELSE calls' = Return(cs, c, Line(m.value, <<>>)) /\ clock' = clock + 1
    /\ UNCHANGED <<next, values, cur, metric, def>>

\* if let Some(now) = self.timestamp.as_ref().map(TimestampCell::timestamp)
\*     { write!(writer, " {now}")?; }     timestamp(): self.now.load(Relaxed)
FmtLoadTimestamp(t) ==
    /\ At(t, "load_timestamp")
    /\ \E now \in RelaxedLoad(t) :
         LET c == cur[t] IN
         calls' = Return([calls EXCEPT ![c].curr = now], c,
                         Line(calls[c].val, <<now>>))
    /\ clock' = clock + 1
    /\ UNCHANGED <<next, values, cur, metric, def>>

NextExport ==
    \E t \in Threads :
        \/ CallSetValue(t)
        \/ UpdateIfAheadLoad(t)
        \/ UpdateIfAheadCas(t)
        \/ StoreValue(t)
        \/ StoreRecorded(t)
        \/ CallFmtMetric(t)
        \/ FmtLoadValue(t)
        \/ FmtLoadTimestamp(t)

SpecExport == InitGauge /\ [][NextExport]_vars

\* ------------------------------------------------------------- FmtLabels
\* The label-set types that implement FmtLabels: a slice &[L], an array
\* [L; LEN], a pair (K, V), the unit (), and a reference &L to any of them.
\* `items` are the labels (pairs) the set holds: LEN of them for an array,
\* one for a pair, none for (); `refs` counts the references wrapped around.
Pair == <<"key", "value">>
RECURSIVE Repeat(_, _)
Repeat(x, n) == IF n = 0 THEN <<>> ELSE <<x>> \o Repeat(x, n - 1)
LabelSets ==
    {[type |-> type, items |-> Repeat(Pair, n), refs |-> refs] :
        type \in {"slice", "array"}, n \in 0..MaxLabels, refs \in 0..1}
    \cup {[type |-> "pair", items |-> <<Pair>>, refs |-> refs] : refs \in 0..1}
    \cup {[type |-> "unit", items |-> <<>>, refs |-> refs] : refs \in 0..1}

\* FmtLabels::is_empty
\*   &[L]:      <[L]>::is_empty(self)
\*   [L; LEN]:  LEN > 0
\*   (K, V):    false
\*   ():        true
\*   &L:        (*self).is_empty()
RECURSIVE is_empty(_)
is_empty(l) ==
    IF l.refs > 0 THEN is_empty([l EXCEPT !.refs = @ - 1])
    ELSE CASE l.type = "slice" -> Len(l.items) = 0
           [] l.type = "array" -> Len(l.items) > 0
           [] l.type = "pair" -> FALSE
           [] l.type = "unit" -> TRUE

\* (K, V)::fmt_labels: write!(writer, "{}=\"{}\"", k, v)
FmtPair(p) == <<p[1], "=\"", p[2], "\"">>

\* &[L]::fmt_labels: the first label, then ',' and a label for each other one
RECURSIVE FmtSlice(_, _)
FmtSlice(items, n) ==
    IF n = 0 THEN <<>>
    ELSE IF n = 1 THEN FmtPair(items[1])
    ELSE FmtSlice(items, n - 1) \o <<",">> \o FmtPair(items[n])

\* FmtLabels::fmt_labels, as the pieces written
\*   [L; LEN]:  (&self[..]).fmt_labels(writer)
\*   ():        Ok(())
\*   &L:        (*self).fmt_labels(writer)
fmt_labels(l) ==
    CASE l.type \in {"slice", "array"} -> FmtSlice(l.items, Len(l.items))
      [] l.type = "pair" -> FmtPair(l.items[1])
      [] l.type = "unit" -> <<>>

\* one turn of fmt_metric's loop for a recorded entry (labels, metric): the
\* name, the labels in braces if !labels.is_empty(), a space, the metric's
\* own fmt_metric and the end of the line
WriteLine(labels, m) ==
    <<def.name>>
    \o (IF ~is_empty(labels) THEN <<"{">> \o fmt_labels(labels) \o <<"}">> ELSE <<>>)
    \o <<" ", ToString(m.value), "\n">>

\* a family of IntGauges with some label-set type, its lines written by
\* exporting threads
InitLabels ==
    /\ next = 0
    /\ values = [i \in SlotIndices |-> NEW_SLOT]
    /\ calls = <<>>
    /\ cur = [t \in Threads |-> 0]
    /\ clock = 0
    /\ metric \in {[NewMetric("IntGauge", FALSE) EXCEPT !.value = v, !.recorded = TRUE] :
                      v \in 0..MaxValue}
    /\ def = MetricBuilder(metric.kind, metric.timestamped)

\* for (labels, metric) in metrics.iter() { ... }: a thread reaches an entry
\* with the label set `labels`
CallWriteLine(t) ==
    /\ \E labels \in LabelSets :
         StartCall(t, "write_line", labels, Uninit, "write", MaxLines)
    /\ UNCHANGED <<next, values, metric, def>>

\* the line is written
WriteLineStep(t) ==
    /\ At(t, "write")
    /\ LET c == cur[t] IN
         calls' = Return(calls, c,
                         [tag |-> "text", text |-> WriteLine(calls[c].key, metric)])
    /\ clock' = clock + 1
    /\ UNCHANGED <<next, values, cur, metric, def>>

NextLabels ==
    \E t \in Threads :
        \/ CallWriteLine(t)
        \/ WriteLineStep(t)

SpecLabels == InitLabels /\ [][NextLabels]_vars

\* ------------------------------------------------------------ MetricFamily
\* MetricBuilder::build::<M, METRICS>(): MetricFamily { def: self, metrics:
\* RegistryMap::new() }, for each metric type and with or without time source
InitFamily ==
    /\ next = 0
    /\ values = [i \in SlotIndices |-> NEW_SLOT]
    /\ calls = <<>>
    /\ cur = [t \in Threads |-> 0]
    /\ clock = 0
    /\ def \in {with_unit(with_help(MetricBuilder(kind, timestamp_fn), help), unit) :
                  kind \in {"Gauge", "IntGauge", "Counter"},
                  timestamp_fn \in BOOLEAN,
                  help \in {"", "help"}, unit \in {"", "unit"}}
    /\ metric = Build(def)

\* pub fn register(&self, labels: L) -> Option<&M>:
\* self.metrics.get_or_register_with(labels, || M::build(&self.def))
CallFamilyRegister(t) ==
    /\ \E labels \in Keys :
         StartCall(t, "MetricFamily::register", labels, Uninit, "scan",
                   MaxFamilyCalls)
    /\ UNCHANGED <<next, values, metric, def>>

\* the metrics some caller holds a reference to: those a register call has
\* returned
Refs ==
    {calls[c].ret.slot :
        c \in {d \in DOMAIN calls : calls[d].pc = "done" /\ calls[d].ret.tag = "Some"}}

\* set_value through a reference that register returned
CallSetValueOn(t) ==
    /\ def.kind \in {"Gauge", "IntGauge"}
    /\ \E i \in Refs, v \in SetValues(def.kind) :
         StartCallOn(t, "set_value", <<i>>, v,
                     IF def.timestamp_fn THEN "load" ELSE "store_value",
                     MaxFamilyCalls)
    /\ UNCHANGED <<next, values, metric, def>>

\* fetch_add through a reference that register returned
CallFetchAddOn(t) ==
    /\ def.kind = "Counter"
    /\ \E i \in Refs, n \in Increments :
         StartCallOn(t, "fetch_add", <<i>>, n,
                     IF def.timestamp_fn THEN "update_max" ELSE "add_value",
                     MaxFamilyCalls)
    /\ UNCHANGED <<next, values, metric, def>>

NextFamily ==
    \E t \in Threads :
        \/ CallFamilyRegister(t)
        \/ ScanStep(t)
        \/ TryRegisterStep(t)
        \/ CallSetValueOn(t)
        \/ UpdateIfAheadLoad(t)
        \/ UpdateIfAheadCas(t)
        \/ StoreValue(t)
        \/ StoreRecorded(t)
        \/ CallFetchAddOn(t)
        \/ UpdateMax(t)
        \/ AddValue(t)

SpecFamily == InitFamily /\ [][NextFamily]_vars

\* What the family's readers return when no other thread takes a step while
\* they run.  Each takes the slot array it reads, so that a family can be
\* compared with the same family without one of its entries.

\* self.metrics.iter().filter(|(_, m)| m.has_been_recorded()): the slots in
\* index order, an uninitialized slot skipped (Iter::next), then the filter
RECURSIVE IterRecordedFrom(_, _)
IterRecordedFrom(vs, i) ==
    IF i >= CAPACITY THEN <<>>
    ELSE IF SlotGet(vs[i]) /\ HasBeenRecorded(vs[i].val)
         THEN <<vs[i]>> \o IterRecordedFrom(vs, i + 1)
         ELSE IterRecordedFrom(vs, i + 1)
iter_recorded(vs) == IterRecordedFrom(vs, 0)

\* self.iter_recorded().map(|(_, metric)| metric.value())
recorded_values(vs) ==
    [n \in 1..Len(iter_recorded(vs)) |-> iter_recorded(vs)[n].val.value]

\* Option<T> of an aggregate
SomeOf(x) == [tag |-> "Some", val |-> x]

\* f64::min / f64::max: if one argument is NaN the other is returned
\* usize (Ord::min / Ord::max): the smaller / larger
MinOf(a, b) == IF a = NaN THEN b ELSE IF b = NaN THEN a ELSE IF b < a THEN b ELSE a
MaxOf(a, b) == IF a = NaN THEN b ELSE IF b = NaN THEN a ELSE IF b > a THEN b ELSE a

\* Iterator::reduce(f64::min) / Iterator::min over the first n values
RECURSIVE ReduceMin(_, _)
ReduceMin(xs, n) == IF n = 1 THEN xs[1] ELSE MinOf(ReduceMin(xs, n - 1), xs[n])
RECURSIVE ReduceMax(_, _)
ReduceMax(xs, n) == IF n = 1 THEN xs[1] ELSE MaxOf(ReduceMax(xs, n - 1), xs[n])

min_value(vs) ==
    LET xs == recorded_values(vs) IN
    IF Len(xs) = 0 THEN None ELSE SomeOf(ReduceMin(xs, Len(xs)))
max_value(vs) ==
    LET xs == recorded_values(vs) IN
    IF Len(xs) = 0 THEN None ELSE SomeOf(ReduceMax(xs, Len(xs)))

\* `sum += val` over the first n values, as a mathematical sum; a NaN among
\* f64 values makes the sum NaN
RECURSIVE SumValues(_, _)
SumValues(xs, n) ==
    IF n = 0 THEN 0
    ELSE LET rest == SumValues(xs, n - 1) IN
         IF rest = NaN \/ xs[n] = NaN THEN NaN ELSE rest + xs[n]

\* the outcomes of a usize sum: the sum itself if it fits; beyond usize::MAX
\* the addition panics where overflow checks are on and wraps where they are
\* off (the values are never negative, so some step overflows exactly when
\* the whole sum does)
UsizeSum(s) ==
    IF s < UsizeModulus THEN {Usize(s)} ELSE {Overflow, Usize(s % UsizeModulus)}

\* total(): self.recorded_values().sum(); f64 for a Gauge, usize for a
\* Counter; MetricFamily<IntGauge> has no such method
total(vs) ==
    LET xs == recorded_values(vs)
        s == SumValues(xs, Len(xs))
    IN  CASE def.kind = "Gauge" -> {s}
          [] def.kind = "Counter" -> UsizeSum(s)
          [] OTHER -> {}

\* mean(): None if nothing is recorded, else Some(sum / recorded): the f64
\* quotient for a Gauge (kept as numerator and denominator; a NaN sum is a
\* NaN numerator and a NaN quotient), the integer
\* quotient for an IntGauge or Counter
mean(vs) ==
    LET xs == recorded_values(vs)
        recorded == Len(xs)
        sum == SumValues(xs, recorded)
    IN  IF recorded = 0 THEN {None}
        ELSE IF def.kind = "Gauge"
             THEN {SomeOf([num |-> sum, den |-> recorded])}
             ELSE {IF s.tag = "panic" THEN Overflow ELSE SomeOf(s.val \div recorded) :
                      s \in UsizeSum(sum)}

\* M::TYPE: an IntGauge is exported as a gauge
TYPE(kind) == IF kind = "Counter" THEN "counter" ELSE "gauge"

\* a loop that writes the recorded entries last slot first
FmtMetricLinesReversed(vs) ==
    [n \in 1..Len(iter_recorded(vs)) |->
        LET e == iter_recorded(vs)[Len(iter_recorded(vs)) + 1 - n] IN
        [labels |-> e.key,
         line |-> Line(e.val.value,
                       IF e.val.timestamped THEN <<e.val.now>> ELSE <<>>)]]

\* MetricFamily::fmt_metric, the lines of its loop: for each entry in slot
\* order that has been recorded, the labels and what the metric's fmt_metric
\* writes (its value and, with a TimestampCell, the latest timestamp)
FmtMetricLines(vs) ==
    [n \in 1..Len(iter_recorded(vs)) |->
        LET e == iter_recorded(vs)[n] IN
        [labels |-> e.key,
         line |-> Line(e.val.value,
                       IF e.val.timestamped THEN <<e.val.now>> ELSE <<>>)]]

\* MetricFamily::fmt_metric, everything it writes, as lines: the writeln! of
\* "# TYPE {name} {ty}", "# UNIT {name} {unit}" and "# HELP {name} {help}",
\* the lines of the loop, and the line the final write_char('\n') ends
BlankLine == [tag |-> "blank"]
FmtMetric(vs) ==
    <<[tag |-> "TYPE", name |-> def.name, text |-> TYPE(def.kind)],
      [tag |-> "UNIT", name |-> def.name, text |-> def.unit],
      [tag |-> "HELP", name |-> def.name, text |-> def.help]>>
    \o [n \in 1..Len(FmtMetricLines(vs)) |->
          [tag |-> "metric", name |-> def.name,
           labels |-> FmtMetricLines(vs)[n].labels,
           line |-> FmtMetricLines(vs)[n].line]]
    \o <<BlankLine>>

\* ------------------------------------- MetricFamily: min, max, total, mean
\* the values a gauge of the family may have been set to: those of SetValues
\* and, for an IntGauge, usize::MAX
GaugeValues(kind) ==
    IF kind = "IntGauge" THEN SetValues(kind) \cup {UsizeModulus - 1}
    ELSE SetValues(kind)

\* a gauge without time source as register leaves it, or after set_value(v)
GaugeStates(kind) ==
    {NewMetric(kind, FALSE)}
    \cup {[NewMetric(kind, FALSE) EXCEPT !.value = v, !.recorded = TRUE] :
             v \in GaugeValues(kind)}

\* A gauge family after n registrations with keys 1..n, one after the other,
\* and set_value calls on some of the gauges, all of which have returned;
\* `calls` holds the calls of the readers only.
InitAggregate ==
    /\ def \in {without_timestamps(MetricBuilder(kind, TRUE)) :
                  kind \in {"Gauge", "IntGauge"}}
    /\ \E n \in 0..CAPACITY :
         /\ next = n
         /\ values \in {[i \in SlotIndices |->
                            IF i < n
                            THEN [initialized |-> TRUE, key |-> i + 1, val |-> ms[i]]
                            ELSE NEW_SLOT] :
                         ms \in [SlotIndices -> GaugeStates(def.kind)]}
    /\ calls = <<>>
    /\ cur = [t \in Threads |-> 0]
    /\ clock = 0
    /\ metric = Build(def)

\* the aggregates a family of this metric type has: MetricFamily<IntGauge>
\* has no total
Aggregates(kind) ==
    IF kind = "IntGauge" THEN {"min_value", "max_value", "mean"}
    ELSE {"min_value", "max_value", "total", "mean"}

\* a thread calls one of the aggregates
CallAggregate(t) ==
    /\ \E op \in Aggregates(def.kind) :
         StartCall(t, op, Uninit, Uninit, "read", MaxReads)
    /\ UNCHANGED <<next, values, metric, def>>

\* what the aggregate returns, or the panic of an addition that overflows
\* (a total is returned as a number, not as an Option)
AggregateOutcomes(op) ==
    CASE op = "min_value" -> {min_value(values)}
      [] op = "max_value" -> {max_value(values)}
      [] op = "total" -> {[tag |-> "f64", val |-> x] : x \in total(values)}
      [] op = "mean" -> mean(values)

\* the aggregate runs over the entries and returns
AggregateReturn(t) ==
    /\ At(t, "read")
    /\ LET c == cur[t] IN
         \E r \in AggregateOutcomes(calls[c].op) :
             calls' = IF r.tag = "panic" THEN Panic(calls, c) ELSE Return(calls, c, r)
    /\ clock' = clock + 1
    /\ UNCHANGED <<next, values, cur, metric, def>>

NextAggregate ==
    \E t \in Threads :
        \/ CallAggregate(t)
        \/ AggregateReturn(t)

SpecAggregate == InitAggregate /\ [][NextAggregate]_vars

\* ------------------------------------------------------ registry observers
\* Each observer is one Acquire load of `next` and arithmetic on the value
\* loaded: what it returns is a function of the state it is called in.
\* RegistryMap's observers forward to these (self.0.len() and so on).
\* An observer returns Usize(n), or ends in the panic Overflow.

\* pub fn len(&self) -> usize { self.next.load(Acquire) }
len == next

\* pub fn capacity(&self) -> usize { CAPACITY }
capacity == CAPACITY

\* a comparison that also answers true one entry early
IsFullEarly == len + 1 >= capacity

\* pub fn is_full(&self) -> bool { self.len() == self.capacity() }
is_full == len = capacity

\* a - b on usize: an underflow panics where overflow checks are compiled in
\* (debug builds) and wraps around where they are not (release builds)
UsizeSub(a, b) ==
    IF b <= a THEN {Usize(a - b)}
              ELSE {Overflow, Usize((a - b + UsizeModulus) % UsizeModulus)}

\* pub fn remaining_capacity(&self) -> usize { self.capacity() - self.len() }
\* (the outcomes the builds of the crate can produce)
remaining_capacity == UsizeSub(capacity, len)

\* ---------------------------------------------------- history predicates
CallIds == DOMAIN calls
Done(c) == calls[c].pc = "done"
Panicked(c) == calls[c].pc = "panicked"
AllReturned == \A c \in CallIds : ~Running(c)
\* the logical time call c ended, or a time still to come while it runs
EndOf(c) == IF Running(c) THEN clock + 1 ELSE calls[c].end
\* calls a and b were in flight at the same time
Overlaps(a, b) == a # b /\ calls[a].start < EndOf(b) /\ calls[b].start < EndOf(a)
\* no other call with an equal key was in flight while call c was
Undisturbed(c) ==
    \A d \in CallIds : (d # c /\ calls[d].key = calls[c].key) => ~Overlaps(c, d)
\* the slots whose initialized flag is set
Initialized == {i \in SlotIndices : values[i].initialized}
\* the calls that came back with a reference
ReturnedRef(c) == Done(c) /\ calls[c].ret.tag \in {"Ok", "Some"}
OkIndices == {calls[c].idx : c \in {d \in CallIds : ReturnedRef(d)}}

\* ------------------------------------------------------------------ claims

\* C1: under every interleaving of concurrent try_register calls no two calls
\* reserve the same slot index, and once all calls have returned the indices
\* of the calls that returned Ok are exactly {0, ..., k-1} for some
\* k <= CAPACITY.
C1_UniqueIndices ==
    /\ \A a, b \in CallIds :
         (a # b /\ calls[a].reserved /\ calls[b].reserved)
            => calls[a].idx # calls[b].idx
    /\ AllReturned =>
         /\ OkIndices = 0..(Cardinality(OkIndices) - 1)
         /\ Cardinality(OkIndices) <= CAPACITY
         /\ \A a, b \in CallIds :
              (a # b /\ ReturnedRef(a) /\ ReturnedRef(b))
                 => calls[a].ret.slot # calls[b].ret.slot

\* two calls that ran concurrently both returned Ok, a third was rejected,
\* and every call has returned
C1_Witness ==
    /\ AllReturned
    /\ \E a, b, c \in CallIds :
         /\ Overlaps(a, b) /\ ReturnedRef(a) /\ ReturnedRef(b)
         /\ calls[c].reserved /\ ~ReturnedRef(c)

\* C2: a slot whose initialized flag is true holds exactly the complete value
\* passed to the try_register call that reserved it; the flag is never set
\* while the write of the value is still in progress.
C2_InitializedIsComplete ==
    \A i \in SlotIndices :
        values[i].initialized =>
            \E c \in CallIds :
                /\ calls[c].reserved /\ calls[c].idx = i
                /\ calls[c].written = {"key", "val"}
                /\ calls[c].pc \notin {"assert", "write"}
                /\ values[i].key = calls[c].key
                /\ values[i].val = calls[c].val

\* one slot is published while another call is halfway through its write
C2_Witness ==
    /\ \E i \in SlotIndices : values[i].initialized
    /\ \E c \in CallIds :
         /\ calls[c].pc = "write" /\ Cardinality(calls[c].written) = 1
         /\ ~values[calls[c].idx].initialized

\* C3: a registry of capacity N accepts exactly the first N try_register
\* calls (Ok with a reference to the stored value), every later call returns
\* Err with the original value unchanged, and register panics in exactly the
\* cases where try_register returns Err.
C3_CapacityBoundary ==
    \A c \in CallIds :
        (calls[c].reserved /\ ~Running(c)) =>
            LET call == calls[c]
                accepted == call.ticket < CAPACITY
            IN  /\ accepted =>
                    /\ call.ret.tag = "Ok"
                    /\ call.ret.key = call.key /\ call.ret.val = call.val
                    /\ values[call.ret.slot].initialized
                    /\ values[call.ret.slot].key = call.key
                    /\ values[call.ret.slot].val = call.val
                /\ (~accepted /\ call.op = "try_register") =>
                    /\ call.ret.tag = "Err"
                    /\ call.ret.key = call.key /\ call.ret.val = call.val
                /\ (call.op = "register") => (Panicked(c) <=> ~accepted)
                /\ (call.op = "try_register") => ~Panicked(c)

\* CAPACITY calls were accepted and the next one came back Err with its value
C3_Witness ==
    /\ Cardinality({c \in CallIds : ReturnedRef(c)}) = CAPACITY
    /\ \E c \in CallIds : Done(c) /\ calls[c].ret.tag = "Err"
                          /\ calls[c].ret.val = calls[c].val

\* call b started after call a had returned a reference for an equal key,
\* and no other call with that key was in flight during either of them
Repeats(a, b) ==
    /\ calls[a].op = "get_or_register_with" /\ calls[b].op = "get_or_register_with"
    /\ calls[a].key = calls[b].key
    /\ Done(a) /\ calls[a].ret.tag = "Some"
    /\ calls[a].end < calls[b].start
    /\ Undisturbed(a) /\ Undisturbed(b)

\* C4: when two get_or_register_with calls with equal keys run one after the
\* other and no other insert of that key is in flight, both return a reference
\* to the same slot, the second call does not evaluate init and reserves no
\* index (len() does not grow), and the stored value stays the first call's.
C4_IdempotentLookup ==
    \A a, b \in CallIds :
        Repeats(a, b) =>
            /\ ~calls[b].initEval
            /\ ~calls[b].reserved
            /\ Done(b) =>
                 /\ calls[b].ret.tag = "Some"
                 /\ calls[b].ret.slot = calls[a].ret.slot
                 /\ calls[b].ret.val = calls[a].ret.val
                 /\ values[calls[a].ret.slot].val = calls[a].ret.val

\* a first call registered the key, a second call for it has returned
C4_Witness ==
    \E a, b \in CallIds :
        Repeats(a, b) /\ Done(b) /\ calls[a].initEval /\ calls[a].ret.slot = 1

\* no two calls have been in flight at the same time
NeverOverlapped == \A a, b \in CallIds : ~Overlaps(a, b)
\* two initialized slots hold equal keys
DuplicateKeys ==
    \E i, j \in Initialized : i # j /\ values[i].key = values[j].key

\* C5: when get_or_register_with calls never overlap in time, no two
\* initialized slots of a RegistryMap hold equal keys.
C5_SequentialKeysUnique == NeverOverlapped => ~DuplicateKeys

\* three calls one after the other: two keys registered, one lookup that
\* found its key
C5_Witness ==
    /\ NeverOverlapped /\ AllReturned /\ Len(calls) = MaxCalls
    /\ Initialized = SlotIndices
    /\ \E c \in CallIds : Done(c) /\ calls[c].ret.tag = "Some" /\ ~calls[c].reserved

\* calls a and b, with equal keys, both ended their scan without a match and
\* both claimed a slot
BothClaimed(a, b) ==
    /\ a # b /\ calls[a].key = calls[b].key
    /\ calls[a].initEval /\ calls[b].initEval
    /\ Done(a) /\ Done(b)
    /\ calls[a].ret.tag = "Some" /\ calls[b].ret.tag = "Some"

\* C6: get_or_register_with is not exactly-once under race: two concurrent
\* calls with the same absent key can both finish their scan without a match
\* and both claim a slot; the registry then holds two initialized slots with
\* equal keys and the two callers hold references to different slots.
C6_RaceDuplicates ==
    \A a, b \in CallIds :
        BothClaimed(a, b) =>
            /\ Overlaps(a, b)
            /\ calls[a].ret.slot # calls[b].ret.slot
            /\ values[calls[a].ret.slot].initialized
            /\ values[calls[b].ret.slot].initialized
            /\ values[calls[a].ret.slot].key = values[calls[b].ret.slot].key
            /\ DuplicateKeys

\* the race has happened
C6_Witness == \E a, b \in CallIds : BothClaimed(a, b) /\ DuplicateKeys

\* the set_value calls, and those whose update_if_ahead returned true
Updates == {c \in CallIds : calls[c].op = "set_value"}
Advanced == {c \in Updates : calls[c].ahead = "true"}
\* the time readings taken so far, and the largest of them and 0
Readings == {calls[c].now : c \in {d \in Updates : calls[d].pc # "load"}}
MaxReading == CHOOSE m \in Readings \cup {0} : \A r \in Readings : r <= m

\* C7: for a Gauge or IntGauge with a time source, once all concurrent
\* set_value calls have returned, the stored value is the one supplied by the
\* call whose time reading became the final stored timestamp (an older
\* reading never overwrites the value of a newer one).
C7_LastWriterByTimestampWins ==
    AllReturned =>
        \A c \in Advanced : calls[c].now = metric.now => metric.value = calls[c].val

\* C8: for a TimestampCell starting at 0 and any interleaving of
\* update_if_ahead calls, the stored timestamp never decreases from one state
\* to the next, and after all calls return it is the maximum of 0 and all
\* the readings.
C8_MonotonicTimestamp ==
    /\ [][metric.now' >= metric.now]_vars
    /\ [](AllReturned => metric.now = MaxReading)

\* two overlapping calls both advanced the timestamp, up to the last reading
C8_Witness ==
    /\ AllReturned /\ metric.now = MaxTime
    /\ \E a, b \in Advanced : Overlaps(a, b) /\ calls[a].now < calls[b].now

\* C9: an update_if_ahead call whose reading is less than or equal to the
\* timestamp stored when it compares returns false and leaves the stored
\* timestamp unchanged, and the enclosing set_value returns without changing
\* the value or the recorded flag: the call writes nothing at all.
C9_StaleUpdateDiscarded ==
    \A c \in Updates :
        /\ (calls[c].pc # "load" /\ metric.timestamped
              /\ calls[c].now <= calls[c].stored) =>
                /\ calls[c].ahead # "true"
                /\ calls[c].written = {}
                /\ Done(c) => calls[c].ahead = "false"
        /\ calls[c].ahead = "false" => (Done(c) /\ calls[c].written = {})

\* a call whose reading equals the stored timestamp has returned false, and
\* the gauge still holds the other call's value
C9_Witness ==
    \E c \in Updates :
        /\ Done(c) /\ calls[c].ahead = "false"
        /\ calls[c].now > 0 /\ calls[c].now = calls[c].stored
        /\ metric.recorded /\ metric.value # calls[c].val

\* C10: Recorded is terminal-stable: once has_been_recorded() has returned
\* true it returns true in every later state, under every interleaving of
\* set_value calls with arbitrary values (0 and NaN included).
C10_RecordedTerminalStable ==
    [][HasBeenRecorded(metric) => HasBeenRecorded(metric')]_vars

\* C11: after exactly one set_value(x) call on a fresh Gauge or IntGauge,
\* has_been_recorded() is true and value() returns x, for every x (0
\* included) and for every configuration: no time source, or a time source
\* returning any reading (0 included).
C11_FirstSetValueRecords ==
    \A c \in Updates :
        (Len(calls) = 1 /\ Done(c)) =>
            /\ HasBeenRecorded(metric)
            /\ metric.value = calls[c].val

\* the calls that reserved an index outside the array (rejected claims)
Rejected == {c \in CallIds : calls[c].reserved /\ ~InBounds(calls[c].idx)}

\* C14: in every reachable state, including after any number of rejected
\* claims, len() never exceeds CAPACITY, and once no call is in flight it
\* equals the number of entries stored in the registry.
C14_LenIsEntriesStored ==
    /\ len <= CAPACITY
    /\ AllReturned => len = Cardinality(Initialized)

\* C15: is_full() returns true if no more entries can be stored: in every
\* state in which a further try_register would find no slot for the index it
\* reserves (states after rejected claims included), is_full() returns true.
C15_IsFullWhenExhausted == ~InBounds(next) => is_full

\* C17: in every reachable state remaining_capacity() returns a value in
\* 0..CAPACITY, computed without underflow; once no call is in flight the
\* value is CAPACITY minus the number of successful registrations, and after
\* a rejected claim it is 0.
C17_RemainingCapacity ==
    \A r \in remaining_capacity :
        /\ r.tag = "usize"
        /\ r.val \in 0..CAPACITY
        /\ AllReturned =>
             r.val = CAPACITY - Cardinality({c \in CallIds : ReturnedRef(c)})
        /\ Rejected # {} => r.val = 0

\* call c came back without an entry: Err, None or a panic
Failed(c) == Panicked(c) \/ (Done(c) /\ calls[c].ret.tag \in {"Err", "None"})
\* is_full() returns true, or remaining_capacity() returns 0, in this state
ObservedFull == is_full \/ Usize(0) \in remaining_capacity

\* C16: whenever is_full() returns true or remaining_capacity() returns 0,
\* every register / try_register call started afterwards fails (Err or
\* panic) and stores nothing, under any interleaving.  The calls started
\* afterwards are those beyond the n calls started so far; either observer
\* answers so only once CAPACITY calls have started, and a further call can
\* start only while fewer than MaxCalls have.
C16_FullMeansLaterCallsFail ==
    /\ [](ObservedFull => Len(calls) >= CAPACITY)
    /\ \A n \in CAPACITY..(MaxCalls - 1) :
         []((ObservedFull /\ Len(calls) = n) =>
               [](\A c \in CallIds :
                     (c > n /\ ~Running(c)) =>
                         (Failed(c) /\ calls[c].written = {})))

\* CAPACITY calls had returned their entries, which is when is_full() returns
\* true and remaining_capacity() returns 0, before a further call started;
\* that call has failed
C16_Witness ==
    \E a \in CallIds :
        /\ Cardinality({c \in CallIds :
              ReturnedRef(c) /\ calls[c].end < calls[a].start}) = CAPACITY
        /\ Failed(a)
        /\ next = CAPACITY + 1

\* the registry was full before call c started: a call d had reserved the
\* last index, after which len() is CAPACITY and is_full() returns true, and
\* had returned
FullBefore(c) ==
    \E d \in CallIds :
        /\ calls[d].reserved /\ FetchAdd(calls[d].idx) = capacity
        /\ ~Running(d) /\ calls[d].end < calls[c].start

Known(c) ==
    \E d \in CallIds :
        /\ ReturnedRef(d) /\ calls[d].end < calls[c].start
        /\ calls[d].key = calls[c].key
\* call c stored nothing: it returned the entry its scan found, or None
LookupOnly(c) ==
    /\ Done(c) /\ calls[c].written = {}
    /\ Known(c) => calls[c].ret.tag = "Some"
    /\ IF calls[c].ret.tag = "Some"
       THEN /\ ~calls[c].initEval /\ ~calls[c].reserved
            /\ values[calls[c].ret.slot].initialized
            /\ values[calls[c].ret.slot].key = calls[c].key
       ELSE calls[c].ret.tag = "None" /\ calls[c].initEval

C19_ExportNotTorn ==
    \A r \in Exports :
        (Done(r) /\ metric.timestamped /\ Cardinality(Updates) <= 1) =>
            calls[r].ret \in
                {Line(Unset(metric.kind), <<0>>)}
                \cup {Line(calls[u].val, <<calls[u].now>>) : u \in Advanced}

\* the sum of the increments of the fetch_add calls in S
RECURSIVE SumOf(_)
SumOf(S) ==
    IF S = {} THEN 0
    ELSE LET c == CHOOSE x \in S : TRUE IN calls[c].val + SumOf(S \ {c})
\* the fetch_add calls applied before call c was
AppliedBefore(c) == {d \in Applied : calls[d].ticket < calls[c].ticket}

\* C13: Counter::fetch_add is a true atomic increment: under every
\* interleaving of concurrent fetch_add calls on a counter starting at 0 no
\* increment is lost (the value is the sum of the increments applied, modulo
\* the word size), each call returns the value the counter held immediately
\* before its own increment, and the value never decreases while the sum does
\* not overflow.
C13_AtomicIncrement ==
    /\ [](/\ metric.value = SumOf(Applied) % UsizeModulus
          /\ \A c \in Applied :
                calls[c].ret = Usize(SumOf(AppliedBefore(c)) % UsizeModulus))
    /\ [][SumOf(Applied') < UsizeModulus => metric.value' >= metric.value]_vars

\* two overlapping calls, fetch_add(usize::MAX) and fetch_add(2): the second
\* to be applied returned usize::MAX and left the counter at 1
C13_Witness ==
    /\ AllReturned
    /\ \E a, b \in Applied :
         /\ Overlaps(a, b)
         /\ calls[a].val = UsizeModulus - 1 /\ calls[b].val = 2
         /\ calls[b].ret = Usize(UsizeModulus - 1)
         /\ metric.value = 1

\* the set_value calls on the metric of slot i that have stored their value
TookEffect(i) ==
    {c \in CallIds : /\ calls[c].op = "set_value" /\ calls[c].target = <<i>>
                     /\ calls[c].written \cap {"value", "recorded"} # {}}

\* the registered metrics on which no set_value has taken effect
Untouched == {i \in Initialized : TookEffect(i) = {}}

\* the family's slots with entry i taken away
Without(i) == [values EXCEPT ![i] = NEW_SLOT]

\* C12: a Gauge or IntGauge that is registered in a family but on which no
\* set_value has taken effect reports has_been_recorded() = false, and the
\* family's exported lines, min_value, max_value, total and mean are what
\* they would be without it, while it occupies a slot and is counted by
\* len().
C12_UnrecordedGaugeOmitted ==
    def.kind \in {"Gauge", "IntGauge"} =>
        \A i \in Untouched :
            /\ ~HasBeenRecorded(values[i].val)
            /\ FmtMetricLines(values) = FmtMetricLines(Without(i))
            /\ min_value(values) = min_value(Without(i))
            /\ max_value(values) = max_value(Without(i))
            /\ total(values) = total(Without(i))
            /\ mean(values) = mean(Without(i))
            /\ values[i] # NEW_SLOT
            /\ i < len

\* a Gauge family with two registered gauges, one set to 2 and one never
\* set: one exported line, and 2 as minimum, total and mean
C12_Witness ==
    /\ def.kind = "Gauge"
    /\ AllReturned
    /\ \E i \in Untouched, j \in Initialized \ Untouched :
         /\ values[j].val.value = 2
         /\ Len(FmtMetricLines(values)) = 1
         /\ FmtMetricLines(values)[1].labels = values[j].key
         /\ min_value(values) = SomeOf(2)
         /\ total(values) = {2}
         /\ mean(values) = {SomeOf([num |-> 2, den |-> 1])}
         /\ len = 2

\* the registered counters to which no fetch_add has added its value
NeverIncremented ==
    {i \in Initialized :
        \A c \in CallIds : (calls[c].op = "fetch_add" /\ calls[c].target = <<i>>)
                                => "value" \notin calls[c].written}

\* C20: a Counter is always treated as recorded: has_been_recorded() is true
\* for every registered counter, and one that no fetch_add has reached yet
\* has value 0, is exported with value 0 and is counted by the family's
\* min_value, max_value, total and mean (one more value, 0, among those
\* aggregated, so the mean is the same sum divided by one more).
C20_CounterAlwaysRecorded ==
    def.kind = "Counter" =>
        /\ \A i \in Initialized : HasBeenRecorded(values[i].val)
        /\ \A i \in NeverIncremented :
              LET others == recorded_values(Without(i)) IN
              /\ values[i].val.value = 0
              /\ \E n \in DOMAIN FmtMetricLines(values) :
                    /\ FmtMetricLines(values)[n].labels = values[i].key
                    /\ FmtMetricLines(values)[n].line.value = 0
              /\ Len(recorded_values(values)) = Len(others) + 1
              /\ min_value(values) = SomeOf(0)
              /\ max_value(values) =
                    IF Len(others) = 0 THEN SomeOf(0) ELSE max_value(Without(i))
              /\ total(values) = total(Without(i))
              /\ mean(values) =
                    {IF s = Overflow THEN Overflow
                     ELSE SomeOf(s.val \div (Len(others) + 1)) :
                        s \in total(Without(i))}

\* a Counter family with two registered counters, one at 2 after
\* fetch_add(2) and one never incremented: two exported lines, minimum 0,
\* total 2, and mean 1 where the incremented counter alone has mean 2
C20_Witness ==
    /\ def.kind = "Counter"
    /\ AllReturned
    /\ \E i \in NeverIncremented, j \in Initialized \ NeverIncremented :
         /\ values[j].val.value = 2
         /\ Len(FmtMetricLines(values)) = 2
         /\ min_value(values) = SomeOf(0)
         /\ max_value(values) = SomeOf(2)
         /\ total(values) = {Usize(2)}
         /\ mean(values) = {SomeOf(1)}
         /\ mean(Without(i)) = {SomeOf(2)}

\* the entries that are visible and recorded
RecordedSlots ==
    {i \in SlotIndices : values[i].initialized /\ HasBeenRecorded(values[i].val)}

\* the position of slot i among the recorded entries, in slot index order
Rank(i) == Cardinality({j \in RecordedSlots : j <= i})

\* C21: MetricFamily::fmt_metric writes the TYPE line, the UNIT line and the
\* HELP line, then exactly one metric line for each initialized entry whose
\* has_been_recorded() is true, in slot index order, then one blank line;
\* an entry that is unrecorded or not yet initialized has no line.
C21_ExportLayout ==
    LET out == FmtMetric(values) IN
    /\ Len(out) = 3 + Cardinality(RecordedSlots) + 1
    /\ out[1] = [tag |-> "TYPE", name |-> def.name,
                 text |-> IF def.kind = "Counter" THEN "counter" ELSE "gauge"]
    /\ out[2] = [tag |-> "UNIT", name |-> def.name, text |-> def.unit]
    /\ out[3] = [tag |-> "HELP", name |-> def.name, text |-> def.help]
    /\ \A i \in RecordedSlots :
          LET l == out[3 + Rank(i)] IN
          /\ l.tag = "metric" /\ l.name = def.name
          /\ l.labels = values[i].key
          /\ l.line.value = values[i].val.value
    /\ out[Len(out)] = [tag |-> "blank"]

\* a gauge family with help text and no unit whose first entry was never set
\* and whose second entry was: TYPE, UNIT, HELP, the second entry's line and
\* the blank line
C21_Witness ==
    /\ def.kind = "Gauge" /\ def.help = "help" /\ def.unit = ""
    /\ AllReturned
    /\ Initialized = {0, 1}
    /\ RecordedSlots = {1}
    /\ Len(FmtMetric(values)) = 5
    /\ FmtMetric(values)[4].labels = values[1].key
    /\ FmtMetric(values)[4].line.value = 2

\* the lines written so far
Lines == {c \in CallIds : calls[c].op = "write_line" /\ Done(c)}

\* the pieces of a written line
Pieces(text) == {text[n] : n \in DOMAIN text}

\* C22: for every label-set type (slice, array of any length, pair, unit and
\* references to them), is_empty() is true exactly when the set holds no
\* label, and an exported line has braces exactly when the set holds at
\* least one label.
C22_BracesIffLabels ==
    \A c \in Lines :
        LET labels == calls[c].key IN
        /\ is_empty(labels) <=> Len(labels.items) = 0
        /\ "{" \in Pieces(calls[c].ret.text) <=> Len(labels.items) >= 1
        /\ "}" \in Pieces(calls[c].ret.text) <=> Len(labels.items) >= 1

\* the fetch_add calls on the counter of slot i that have added their value
AppliedOn(i) ==
    {c \in CallIds : /\ calls[c].op = "fetch_add" /\ calls[c].target = <<i>>
                     /\ "value" \in calls[c].written}

\* call c stores its value in this step
StoresValue(c) == "value" \notin calls[c].written /\ "value" \in calls'[c].written

\* C23: in a family built without a time source every set_value call stores
\* its value and marks the gauge recorded (a store makes the value the
\* call's, and nothing else changes the value, so the last store decides
\* it), every fetch_add adds its increment, and no exported line carries a
\* timestamp.
C23_NoTimeSource ==
    /\ [](~def.timestamp_fn =>
            /\ \A c \in Updates :
                  /\ calls[c].ahead = "pending"
                  /\ Done(c) => /\ calls[c].written = {"value", "recorded"}
                                /\ Metric(c).recorded
                                /\ HasBeenRecorded(Metric(c))
            /\ \A c \in CallIds :
                  (calls[c].op = "fetch_add" /\ Done(c)) => c \in AppliedOn(calls[c].target[1])
            /\ \A i \in Initialized :
                  def.kind = "Counter" =>
                      values[i].val.value = SumOf(AppliedOn(i)) % UsizeModulus
            /\ \A n \in DOMAIN FmtMetricLines(values) :
                  FmtMetricLines(values)[n].line.timestamp = <<>>)
    /\ [][(~def.timestamp_fn /\ def.kind # "Counter") =>
            /\ \A c \in Updates :
                  StoresValue(c) =>
                      values'[calls[c].target[1]].val.value = calls[c].val
            /\ \A i \in Initialized :
                  values'[i].val.value # values[i].val.value =>
                      \E c \in Updates : calls[c].target = <<i>> /\ StoresValue(c)]_vars

\* a Gauge family without a time source: two overlapping set_value calls on
\* the same gauge with different values have both returned, the gauge is
\* recorded and its line has no timestamp
C23_Witness ==
    /\ ~def.timestamp_fn /\ def.kind = "Gauge"
    /\ \E a, b \in Updates :
         /\ Overlaps(a, b) /\ Done(a) /\ Done(b)
         /\ calls[a].target = calls[b].target
         /\ calls[a].val # calls[b].val
         /\ Metric(a).value = calls[a].val
         /\ Metric(a).recorded
    /\ Len(FmtMetricLines(values)) = 1
    /\ FmtMetricLines(values)[1].line.timestamp = <<>>

\* the sum of the values of the entries in S, as a number (NaN apart)
RECURSIVE SumSlots(_)
SumSlots(S) ==
    IF S = {} THEN 0
    ELSE LET i == CHOOSE x \in S : TRUE IN values[i].val.value + SumSlots(S \ {i})

\* the recorded entries whose value is a number
Numbers == {i \in RecordedSlots : values[i].val.value # NaN}

\* the sum of the recorded values: NaN as soon as one of them is NaN
RecordedSum == IF Numbers # RecordedSlots THEN NaN ELSE SumSlots(RecordedSlots)

\* x is the least (greatest) recorded value; NaN only if no recorded value
\* is a number
LeastRecorded(x) ==
    /\ x \in {values[i].val.value : i \in RecordedSlots}
    /\ x = NaN <=> Numbers = {}
    /\ \A i \in Numbers : x <= values[i].val.value
GreatestRecorded(x) ==
    /\ x \in {values[i].val.value : i \in RecordedSlots}
    /\ x = NaN <=> Numbers = {}
    /\ \A i \in Numbers : x >= values[i].val.value

\* C24: in an IntGauge or Gauge family every call of min_value, max_value,
\* total and mean returns the aggregate of exactly the entries whose
\* has_been_recorded() is true: None from min_value, max_value and mean
\* when there is none, else the least and the greatest recorded value, the
\* sum, and the sum divided by the count, rounded down for an IntGauge.
C24_AggregatesOverRecorded ==
    \A c \in CallIds :
        /\ ~Panicked(c)
        /\ Done(c) =>
            LET ret == calls[c].ret
                op == calls[c].op
            IN  IF op = "total" THEN ret.val = RecordedSum
                ELSE IF RecordedSlots = {} THEN ret.tag = "None"
                ELSE /\ ret.tag = "Some"
                     /\ op = "min_value" => LeastRecorded(ret.val)
                     /\ op = "max_value" => GreatestRecorded(ret.val)
                     /\ op = "mean" =>
                          IF def.kind = "IntGauge"
                          THEN ret.val = SumSlots(RecordedSlots) \div Cardinality(RecordedSlots)
                          ELSE ret.val = [num |-> RecordedSum,
                                          den |-> Cardinality(RecordedSlots)]

\* call c, an update of a metric, takes a step
UpdateStep(c) ==
    /\ calls[c].op \in {"set_value", "fetch_add"}
    /\ calls'[c] # calls[c]

\* C25: a step of set_value or fetch_add on one metric of a family leaves
\* every other metric (value, recorded flag, timestamp), the index counter
\* and every slot's initialized flag and key unchanged, and the timestamp of
\* a metric is 0 or a clock reading taken by an update of that metric.
C25_UpdateFrame ==
    /\ [][\A c \in CallIds :
            UpdateStep(c) =>
                /\ next' = next
                /\ \A i \in SlotIndices :
                      /\ values'[i].initialized = values[i].initialized
                      /\ values'[i].key = values[i].key
                      /\ calls[c].target # <<i>> => values'[i] = values[i]]_vars
    /\ [](\A i \in Initialized :
             values[i].val.now \in
                 {0} \cup {calls[c].now :
                              c \in {d \in CallIds : calls[d].target = <<i>>}})

\* a family with a time source and two registered metrics: an update with
\* clock reading 2 was applied to one, whose timestamp is 2, and the other
\* is as register built it
C25_Witness ==
    /\ def.timestamp_fn
    /\ AllReturned
    /\ \E i, j \in Initialized :
         /\ i # j
         /\ \E c \in CallIds :
              /\ calls[c].op \in {"set_value", "fetch_add"}
              /\ calls[c].target = <<i>> /\ calls[c].now = 2
              /\ "value" \in calls[c].written
         /\ values[i].val.now = 2
         /\ values[i].val.value = 2
         /\ values[j].val = Build(def)

\* call c writes a word into its slot's storage in this step
WritesSlot(c) == calls[c].reserved /\ calls'[c].written # calls[c].written

\* C26: slot permanence: once a slot's initialized flag is true the flag
\* stays true, nothing writes to the slot's storage again and its key and
\* value stay in that slot: every reference a call returned still points at
\* the slot and the value it was returned for.
C26_SlotPermanence ==
    /\ [][/\ \A i \in Initialized : values'[i] = values[i]
          /\ \A c \in CallIds :
                WritesSlot(c) => ~values[calls[c].idx].initialized]_vars
    /\ [](\A c \in CallIds :
             ReturnedRef(c) =>
                 /\ values[calls[c].ret.slot].initialized
                 /\ values[calls[c].ret.slot].key = calls[c].ret.key
                 /\ values[calls[c].ret.slot].val = calls[c].ret.val)

\* both slots were filled by overlapping calls that have returned, and a
\* third call, made afterwards, was rejected and changed neither
C26_Witness ==
    /\ AllReturned
    /\ Initialized = SlotIndices
    /\ \E a, b, c \in CallIds :
         /\ ReturnedRef(a) /\ ReturnedRef(b) /\ Overlaps(a, b)
         /\ calls[a].ret.slot = 0 /\ calls[b].ret.slot = 1
         /\ calls[c].start > calls[a].end /\ calls[c].start > calls[b].end
         /\ calls[c].reserved /\ ~InBounds(calls[c].idx)
         /\ values[0].val = calls[a].val /\ values[1].val = calls[b].val

\* call c reserves its index in this step
Claims(c) == ~calls[c].reserved /\ calls'[c].reserved

\* C27: every claim, successful or rejected, adds one to `next`, which never
\* decreases and counts the claims made, so it may exceed CAPACITY; a
\* rejected claim (reserved index >= CAPACITY) writes nothing and leaves
\* every slot's storage and initialized flag as they were.
C27_RejectedClaimConsumesIndex ==
    /\ [][/\ next' >= next
          /\ \A c \in CallIds :
                /\ Claims(c) => next' = next + 1 /\ calls'[c].idx = next
                /\ (calls'[c] # calls[c] /\ ~InBounds(calls'[c].idx)) =>
                        values' = values]_vars
    /\ [](/\ next = Reservations
          /\ \A c \in Rejected : calls[c].written = {} /\ ~Running(c))

\* a registry with every slot filled and one claim rejected after that:
\* next is CAPACITY + 1
C27_Witness ==
    /\ AllReturned
    /\ next = CAPACITY + 1
    /\ Initialized = SlotIndices
    /\ \E c \in Rejected : calls[c].ret.tag = "Err" /\ calls[c].idx = CAPACITY

\* call c failed the assertion "slot already initialized!": it reserved an
\* index inside the array and panicked before writing anything
AssertionReached(c) ==
    /\ Panicked(c) /\ calls[c].reserved
    /\ InBounds(calls[c].idx) /\ calls[c].written = {}

\* C28: no index is handed out twice and the assertion "slot already
\* initialized!" is never reached, for every sequence of claims, those
\* included whose number exceeds the range of the index counter, so that
\* fetch_add wraps around.
C28_NoReuseAcrossWrap ==
    /\ \A c \in CallIds : ~AssertionReached(c)
    /\ \A c \in CallIds :
          (calls[c].reserved /\ InBounds(calls[c].idx)) =>
              \A d \in CallIds \ {c} :
                  calls[d].reserved => calls[d].idx # calls[c].idx

\* the compare-exchange of call c fails in this step, and not spuriously:
\* the cell did not hold curr
CasFails(c) ==
    /\ calls[c].op = "set_value" /\ calls[c].pc = "cas"
    /\ calls'[c] # calls[c] /\ calls'[c].ahead # "true"

\* C29: every update_if_ahead call terminates under weak fairness, with
\* finitely many callers and a compare_exchange_weak that does not fail
\* spuriously forever: it returns true or false, and so does set_value;
\* a failed compare-exchange makes the value it returned the new curr, and
\* it fails (other than spuriously) only when the stored timestamp has
\* grown beyond the curr the call held.
C29_UpdateIfAheadTerminates ==
    /\ \A c \in 1..MaxUpdates :
          (c \in CallIds) ~>
              (IF c \in CallIds
               THEN /\ ~Running(c)
                    /\ metric.timestamped => calls[c].ahead \in {"true", "false"}
               ELSE FALSE)
    /\ [][\A c \in CallIds :
            CasFails(c) => /\ calls'[c].curr = metric.now
                           /\ metric.now > calls[c].curr
                           /\ calls'[c].pc = "cas" <=> calls[c].now > metric.now]_vars

\* two overlapping set_value calls: one read time 2 with curr 0, lost the
\* exchange to the other, which stored time 1, retried with curr 1 and won
C29_Witness ==
    /\ AllReturned
    /\ metric.now = 2
    /\ \E a, b \in Updates :
         /\ Overlaps(a, b)
         /\ calls[a].ahead = "true" /\ calls[a].now = 2 /\ calls[a].curr = 1
         /\ calls[b].ahead = "true" /\ calls[b].now = 1 /\ calls[b].curr = 0

\* the set_value calls that have read the time and got the reading now
ReadTime(now) == {c \in Updates : calls[c].pc # "load" /\ calls[c].now = now}

\* C30: among the set_value calls on one Gauge or IntGauge with a time
\* source that read the same time, at most one has update_if_ahead return
\* true and stores its value; every other one is discarded: it returns
\* without storing anything.
C30_OneWinnerPerTimestamp ==
    metric.timestamped =>
        \A now \in 0..MaxTime :
            /\ Cardinality({c \in ReadTime(now) : calls[c].ahead = "true"}) <= 1
            /\ Cardinality({c \in ReadTime(now) : calls[c].written # {}}) <= 1
            /\ \A c \in ReadTime(now) :
                  /\ calls[c].written # {} => calls[c].ahead = "true"
                  /\ (Done(c) /\ calls[c].ahead # "true") =>
                        calls[c].ahead = "false" /\ calls[c].written = {}

\* two overlapping set_value calls with different values both read time 1:
\* one advanced the timestamp and stored its value, the other was discarded
C30_Witness ==
    /\ metric.timestamped
    /\ AllReturned
    /\ \E a, b \in ReadTime(1) :
         /\ Overlaps(a, b)
         /\ calls[a].val # calls[b].val
         /\ calls[a].ahead = "true" /\ calls[a].written = {"now", "value", "recorded"}
         /\ calls[b].ahead = "false" /\ calls[b].written = {}
         /\ metric.value = calls[a].val /\ metric.now = 1

\* the fetch_add calls that have taken their clock reading
TimedAdds == {c \in CallIds : calls[c].op = "fetch_add" /\ calls[c].pc # "update_max"}

\* call c runs update_max in this step
UpdatesMax(c) ==
    /\ calls[c].op = "fetch_add"
    /\ calls[c].pc = "update_max" /\ calls'[c].pc = "add_value"

\* C31: a fetch_add on a Counter with a time source applies its increment
\* whatever the clock reads: update_max with a reading at or below the
\* stored timestamp leaves the timestamp as it is (a reading above replaces
\* it), the call goes on to add its value, and in every state the stored
\* timestamp is the maximum of 0 and the readings taken.
C31_CounterTimestampIsMax ==
    /\ [](metric.timestamped =>
            /\ \A r \in {calls[c].now : c \in TimedAdds} : r <= metric.now
            /\ metric.now \in {0} \cup {calls[c].now : c \in TimedAdds}
            /\ metric.value = SumOf(Applied) % UsizeModulus
            /\ \A c \in CallIds :
                  (calls[c].op = "fetch_add" /\ Done(c)) => c \in Applied)
    /\ [][\A c \in CallIds :
            UpdatesMax(c) =>
                /\ calls'[c].now <= metric.now => metric'.now = metric.now
                /\ calls'[c].now > metric.now => metric'.now = calls'[c].now
                /\ metric'.value = metric.value]_vars

\* two fetch_add calls one after the other on a Counter with a time source:
\* the first read time 2, the second read time 1; both increments are in
\* the value and the timestamp is still 2
C31_Witness ==
    /\ metric.timestamped
    /\ AllReturned
    /\ \E a, b \in Applied :
         /\ calls[a].end < calls[b].start
         /\ calls[a].now = 2 /\ calls[b].now = 1
         /\ calls[a].val = 1 /\ calls[b].val = 2
         /\ metric.value = 3
         /\ metric.now = 2

\* the iterations among the calls
Iterations == {c \in CallIds : calls[c].op \in Iterators}
\* the slots an iteration has handed out, in order
YieldedSlots(c) == [j \in 1..Len(calls[c].yielded) |-> calls[c].yielded[j].slot]
\* sequence q is strictly increasing
Increasing(q) == \A i, j \in 1..Len(q) : i < j => q[i] < q[j]
\* the elements of sequence q
Range(q) == {q[j] : j \in 1..Len(q)}
\* iteration c takes a slot from the array in this step
Visits(c) == Len(calls'[c].visited) = Len(calls[c].visited) + 1

\* C32: an iteration visits the slots in strictly increasing index order,
\* hands out each slot at most once and only if its flag was set when it was
\* visited, visits at most CAPACITY slots, and once it has ended it has
\* handed out every slot whose flag was set before it began.
C32_IterationOrder ==
    /\ [](\A c \in Iterations :
            /\ Increasing(calls[c].visited)
            /\ Increasing(YieldedSlots(c))
            /\ Range(YieldedSlots(c)) \subseteq Range(calls[c].visited)
            /\ Len(calls[c].visited) <= CAPACITY
            /\ calls[c].before \cap Range(calls[c].visited) \subseteq Range(YieldedSlots(c))
            /\ Done(c) => calls[c].before \subseteq Range(YieldedSlots(c)))
    /\ [][\A c \in Iterations :
            IF c \in DOMAIN calls' /\ Visits(c)
            THEN LET i == calls[c].cursor IN
                 /\ calls'[c].visited = Append(calls[c].visited, i)
                 /\ calls'[c].yielded # calls[c].yielded <=> values[i].initialized
                 /\ calls'[c].yielded # calls[c].yielded =>
                       YieldedSlots(c)' = Append(YieldedSlots(c), i)
            ELSE calls'[c].yielded = calls[c].yielded]_vars

\* an iteration that began with slot 0 filled and slot 1 claimed but not yet
\* published has ended: it visited slots 0 and 1, handed out slot 0 only,
\* and slot 1's flag was set while it ran, after it had passed
C32_Witness ==
    \E c \in Iterations :
        /\ Done(c)
        /\ calls[c].before = {0}
        /\ calls[c].visited = <<0, 1>>
        /\ YieldedSlots(c) = <<0>>
        /\ values[1].initialized

\* the same race the other way: slot 1 was published after the iteration
\* began and before the iteration reached it, and it was handed out
C32_WitnessYielded ==
    \E c \in Iterations :
        /\ Done(c)
        /\ calls[c].before = {0}
        /\ YieldedSlots(c) = <<0, 1>>

\* C38: the lower bound size_hint() returns never exceeds the number of
\* items the iterator still hands out afterwards: for an iteration that has
\* ended, every hint given on the way is at most the number of items handed
\* out since the hint.
C38_SizeHintLowerBound ==
    \A c \in Iterations :
        Done(c) =>
            \A h \in calls[c].hints :
                h.lower <= Len(calls[c].yielded) - h.at

\* the claims in flight: an index reserved, the call not yet returned
InFlight == {c \in CallIds : calls[c].reserved /\ Running(c)}
\* the smaller of two numbers
Min(a, b) == IF a <= b THEN a ELSE b

\* C33: in every reachable state the initialized slots lie within
\* {0, ..., min(next, CAPACITY) - 1}, so there are at most len() of them and
\* no iteration hands out more than len() entries; and whenever no claim is
\* in flight and none has been rejected, the initialized slots are exactly
\* {0, ..., len() - 1}.
C33_InitializedWithinLen ==
    /\ Initialized \subseteq 0..(Min(next, CAPACITY) - 1)
    /\ Cardinality(Initialized) <= len
    /\ \A c \in Iterations : Len(calls[c].yielded) <= len
    /\ (InFlight = {} /\ Rejected = {}) =>
          /\ len = Cardinality(Initialized)
          /\ Initialized = 0..(len - 1)

\* two claims in flight: the claim of slot 1 has published its slot while the
\* claim of slot 0 has not, so the initialized slots {1} are not a prefix,
\* and an iteration over that state handed out one entry while len() is 2
C33_Witness ==
    /\ Initialized = {1}
    /\ len = 2
    /\ \E c \in InFlight : calls[c].idx = 0
    /\ \E c \in Iterations : Done(c) /\ YieldedSlots(c) = <<1>>

\* no claim in flight and none rejected, with both slots filled
C33_WitnessQuiescent ==
    /\ InFlight = {} /\ Rejected = {}
    /\ len = 2 /\ Initialized = {0, 1}

\* the get_or_register_with calls that came back with a reference
Lookups == {c \in CallIds : calls[c].op = "get_or_register_with" /\ ReturnedRef(c)}

\* C34: once a get_or_register_with call for a key has returned a reference
\* to a slot, every get_or_register_with call for an equal key that starts
\* afterwards and returns a reference returns one to the same slot.
C34_StableReferencePerKey ==
    \A a, b \in Lookups :
        (calls[a].key = calls[b].key /\ calls[a].end < calls[b].start) =>
            calls[b].ret.slot = calls[a].ret.slot

\* the get_or_register_with calls
MapCalls == {c \in CallIds : calls[c].op = "get_or_register_with"}
\* call c evaluates init() in this step
EvaluatesInit(c) == ~calls[c].initEval /\ calls'[c].initEval
\* the calls that stored an entry with a key equal to call c's and returned
\* before call c began
StoredBefore(c) ==
    {d \in MapCalls : /\ d # c /\ ReturnedRef(d) /\ calls[d].reserved
                      /\ calls[d].key = calls[c].key
                      /\ calls[d].end < calls[c].start}

Stored == {c \in Updates : "value" \in calls[c].written}
\* call c sets the recorded flag in this step
StoresRecorded(c) ==
    "recorded" \notin calls[c].written /\ "recorded" \in calls'[c].written

\* C36: set_value stores the value before it sets the recorded flag: in
\* every reachable state of a Gauge or IntGauge a true recorded flag implies
\* that the stored value is the one a set_value call supplied and stored,
\* and the call that sets the flag has stored its value before.
C36_ValueBeforeRecorded ==
    /\ [](metric.recorded =>
            \E c \in Stored : metric.value = calls[c].val)
    /\ [](\A c \in Updates : "recorded" \in calls[c].written => c \in Stored)
    /\ [][\A c \in Updates :
            (c \in DOMAIN calls' /\ StoresRecorded(c)) =>
                /\ c \in Stored
                /\ metric'.recorded
                /\ metric'.value = metric.value]_vars

\* the recorded flag is set and the value is the metric's initial default,
\* which the one set_value call supplied and stored
C36_Witness ==
    /\ metric.recorded
    /\ metric.value = Unset(metric.kind)
    /\ Len(calls) = 1
    /\ \E c \in Stored : Done(c) /\ calls[c].val = Unset(metric.kind)

\* the flag still false after a call has stored its value: the value comes
\* first
C36_WitnessBetween ==
    /\ ~metric.recorded
    /\ \E c \in Stored : Running(c) /\ metric.value = calls[c].val
                          /\ metric.value # Unset(metric.kind)

\* how far a call has come: the place of its statement in the operation,
\* plus the slots its loop has passed and the words it has copied
PcRank(pc) ==
    CASE pc \in {"scan", "next", "update_max"} -> 0
      [] pc \in {"fetch_add", "add_value"} -> 1
      [] pc = "assert" -> 2
      [] pc = "write" -> 3
      [] pc = "swap" -> 4
      [] OTHER -> 5
Progress(call) ==
    PcRank(call.pc) + call.cursor + Cardinality(call.written \cap {"key", "val"})
\* no call takes more steps than this
OwnStepsBound == CAPACITY + 7

\* C37: no operation waits on another thread.  A thread inside a call can
\* always take the call's next step, whatever state the other thread's call
\* is in; every step of a call takes it strictly further along a course of
\* at most OwnStepsBound steps; so a thread that keeps running comes back
\* from every call it is in (it is idle again) even if the other thread
\* stops for good, between reserving an index and publishing its slot or
\* anywhere else.
C37_NoOperationWaits ==
    /\ [](\A t \in Threads : ~ThreadIdle(t) => ENABLED OwnStep(t))
    /\ [](\A c \in CallIds : Progress(calls[c]) <= OwnStepsBound)
    /\ [][\A c \in CallIds :
            calls'[c] # calls[c] => Progress(calls'[c]) > Progress(calls[c])]_vars
    /\ ~ThreadIdle(1) ~> ThreadIdle(1)

\* thread 2 reserved index 0 and has not published its slot; thread 1 has
\* since finished a get_or_register_with that filled slot 1 and an iteration
\* that passed both slots and handed out slot 1
C37_Witness ==
    /\ \E d \in InFlight : calls[d].thread = 2 /\ calls[d].idx = 0
    /\ ~values[0].initialized
    /\ \E a, b \in CallIds :
         /\ calls[a].thread = 1 /\ calls[b].thread = 1
         /\ calls[a].op = "get_or_register_with" /\ ReturnedRef(a)
         /\ calls[a].idx = 1
         /\ calls[b].op \in Iterators /\ Done(b)
         /\ YieldedSlots(b) = <<1>>

====
